---- MODULE Spec2Model ----
(***************************************************************************)
(* query_map: a read-only multi-valued map (QueryMap), its accessors, its  *)
(* flattening iterator (QueryMapIter) and its serde adapters (the generic  *)
(* Deserialize impl and the aws_api_gateway_v2 functions).                  *)
(*                                                                         *)
(* A Rust String is a sequence of one-character strings, so that           *)
(* str::split(',') and [String]::join(",") are computed, not assumed.      *)
(* A HashMap<String, Vec<String>> is a function from the set of present    *)
(* keys to sequences of Strings.                                            *)
(***************************************************************************)
EXTENDS Integers, Sequences, FiniteSets, TLC

VARIABLES
    pc,        \* position of the program
    call,      \* the constructor that was invoked
    input,     \* the argument handed to the constructor
    inner,     \* visit_map: the HashMap under construction
    pos,       \* visit_map: number of entries pulled from the MapAccess
    result,    \* value returned by the constructing call
    map,       \* self.0 of the QueryMap in use
    looked,    \* outcome of the last first()/all() lookup
    keys,      \* QueryMapIter.keys
    current,   \* QueryMapIter.current
    next_idx,  \* QueryMapIter.next_idx
    emitted,   \* the pairs next() has returned so far
    out,       \* what a serializer wrote
    orig       \* the QueryMap that serialize_query_string_parameters was given

vars == <<pc, call, input, inner, pos, result, map, looked,
          keys, current, next_idx, emitted, out, orig>>

iterVars == <<keys, current, next_idx, emitted>>

-----------------------------------------------------------------------------
(* Bounds and input domains *)

MaxEntries == 2

Keys == {"foo", "bar"}
LookupKeys == Keys \cup {"baz"}

Comma == ","
B == <<"b">>
C == <<"c">>
BC == <<"b", ",", "c">>

\* scalar strings a source may hold: "", "b", ",", "b,c", "b,"
Scalars == { <<>>, B, <<",">>, BC, <<"b", ",">> }

\* list-shaped values a source may hold: [], ["b"], ["b","c"], ["c","b"], ["b,c"]
Lists == { <<>>, <<B>>, <<B, C>>, <<C, B>>, <<BC>> }

\* value lists of a raw HashMap handed to From: the above, ["",""] and ["b","c","b"]
RawLists == Lists \cup { << <<>>, <<>> >>, <<B, C, B>> }

ScalarEnc(s) == [shape |-> "scalar", s |-> s, items |-> <<>>]
ListEnc(l) == [shape |-> "list", s |-> <<>>, items |-> l]
NumberEnc == [shape |-> "number", s |-> <<>>, items |-> <<>>]

Encoded == {ScalarEnc(s) : s \in Scalars} \cup {ListEnc(l) : l \in Lists} \cup {NumberEnc}

Entries == [key : Keys, value : Encoded]

EntrySeqs == UNION {[1..n -> Entries] : n \in 0..MaxEntries}

EmptyStore == [k \in {} |-> <<>>]

RawStores == UNION {[S -> RawLists] : S \in SUBSET Keys}

Perms(S) == {f \in [1..Cardinality(S) -> S] : \A i, j \in DOMAIN f : f[i] = f[j] => i = j}

-----------------------------------------------------------------------------
(* Strings *)

HasComma(s) == \E i \in 1..Len(s) : s[i] = Comma

FirstComma(s) == CHOOSE i \in 1..Len(s) : s[i] = Comma /\ \A j \in 1..(i-1) : s[j] # Comma

\* str::split(','): n commas give n+1 pieces, "" gives [""]
RECURSIVE split(_)
split(s) ==
    IF ~HasComma(s) THEN <<s>>
    ELSE <<SubSeq(s, 1, FirstComma(s) - 1)>> \o split(SubSeq(s, FirstComma(s) + 1, Len(s)))

\* [String]::join(",")
RECURSIVE join(_)
join(l) ==
    IF l = <<>> THEN <<>>
    ELSE IF Len(l) = 1 THEN l[1]
    ELSE l[1] \o <<Comma>> \o join(Tail(l))

-----------------------------------------------------------------------------
(* QueryMap and its accessors *)

None == [some |-> FALSE, val |-> <<>>]
Some(v) == [some |-> TRUE, val |-> v]

HashMap_insert(m, k, v) == [x \in (DOMAIN m) \cup {k} |-> IF x = k THEN v ELSE m[x]]

QueryMap_default == EmptyStore

QueryMap_from(raw) == raw

first(m, k) == IF k \in DOMAIN m /\ Len(m[k]) > 0 THEN Some(m[k][1]) ELSE None

all(m, k) == IF k \in DOMAIN m THEN Some(m[k]) ELSE None

is_empty(m) == DOMAIN m = {}

unwrap_or_default(o) == IF o.some THEN o.val ELSE <<>>

-----------------------------------------------------------------------------
(* QueryMapIter *)

NoCurrent == [some |-> FALSE, key |-> "", values |-> <<>>]

iter(order) == [order |-> order, at |-> 0]

\* hash_map::Keys::next
Keys_next(ks) ==
    IF ks.at < Len(ks.order)
    THEN [some |-> TRUE, key |-> ks.order[ks.at + 1], rest |-> [ks EXCEPT !.at = @ + 1]]
    ELSE [some |-> FALSE, key |-> "", rest |-> ks]

\* a plausible slip: the cursor is cleared at a key boundary but next_idx is kept
QueryMapIter_next_stale_idx(data, ks, cur, idx) ==
    LET pulled == Keys_next(ks)
        cur1 == IF cur.some THEN cur
                ELSE IF pulled.some
                     THEN [some |-> TRUE, key |-> pulled.key,
                           values |-> unwrap_or_default(all(data, pulled.key))]
                     ELSE NoCurrent
        ks1 == IF cur.some THEN ks ELSE pulled.rest
    IN  IF ~cur1.some
        THEN [kind |-> "none", keys |-> ks1, current |-> cur1, next_idx |-> idx,
              key |-> "", value |-> <<>>]
        ELSE IF idx >= Len(cur1.values)
        THEN [kind |-> "panic", keys |-> ks1, current |-> cur1, next_idx |-> idx,
              key |-> cur1.key, value |-> <<>>]
        ELSE LET reset == ~(idx + 1 < Len(cur1.values))
             IN [kind |-> "some", keys |-> ks1,
                 current |-> IF reset THEN NoCurrent ELSE cur1,
                 next_idx |-> IF reset THEN idx ELSE idx + 1,
                 key |-> cur1.key, value |-> cur1.values[idx + 1]]

\* one call of next(): the new cursor state and what the call does
\* ("some": returns a pair, "none": returns None, "panic": values[next_idx] is
\* out of bounds)
QueryMapIter_next(data, ks, cur, idx) ==
    LET pulled == Keys_next(ks)
        cur1 == IF cur.some THEN cur
                ELSE IF pulled.some
                     THEN [some |-> TRUE, key |-> pulled.key,
                           values |-> unwrap_or_default(all(data, pulled.key))]
                     ELSE NoCurrent
        ks1 == IF cur.some THEN ks ELSE pulled.rest
    IN  IF ~cur1.some
        THEN [kind |-> "none", keys |-> ks1, current |-> cur1, next_idx |-> idx,
              key |-> "", value |-> <<>>]
        ELSE IF idx >= Len(cur1.values)
        THEN [kind |-> "panic", keys |-> ks1, current |-> cur1, next_idx |-> idx,
              key |-> cur1.key, value |-> <<>>]
        ELSE LET reset == ~(idx + 1 < Len(cur1.values))
             IN [kind |-> "some", keys |-> ks1,
                 current |-> IF reset THEN NoCurrent ELSE cur1,
                 next_idx |-> IF reset THEN 0 ELSE idx + 1,
                 key |-> cur1.key, value |-> cur1.values[idx + 1]]

\* drive next() until it returns None (Iterator::map(..).collect())
RECURSIVE IterCollect(_, _, _, _, _)
IterCollect(data, ks, cur, idx, acc) ==
    LET r == QueryMapIter_next(data, ks, cur, idx)
    IN  IF r.kind = "none" THEN [panic |-> FALSE, pairs |-> acc]
        ELSE IF r.kind = "panic" THEN [panic |-> TRUE, pairs |-> acc]
        ELSE IterCollect(data, r.keys, r.current, r.next_idx,
                         Append(acc, [key |-> r.key, value |-> r.value]))

-----------------------------------------------------------------------------
(* Errors and results *)

NoKey == "(no key)"
NoCause == "(no cause)"
NoError == [msg |-> "", key |-> NoKey, cause |-> NoCause]

\* the error of the derived untagged-enum Deserialize when no variant matches
UntaggedError ==
    [msg |-> "data did not match any variant of untagged enum OneOrMany",
     key |-> NoKey, cause |-> NoCause]

InvalidType == [msg |-> "invalid type: Option value, expected a QueryMap",
                key |-> NoKey, cause |-> NoCause]

Pending == [tag |-> "pending", opt |-> "plain", val |-> EmptyStore, err |-> NoError]
Ok(m) == [tag |-> "ok", opt |-> "plain", val |-> m, err |-> NoError]
OkSome(m) == [tag |-> "ok", opt |-> "some", val |-> m, err |-> NoError]
OkNone == [tag |-> "ok", opt |-> "none", val |-> EmptyStore, err |-> NoError]
Err(e) == [tag |-> "err", opt |-> "plain", val |-> EmptyStore, err |-> e]

HasStore(r) == r.tag = "ok" /\ r.opt # "none"

-----------------------------------------------------------------------------
(* Decoding: the untagged OneOrMany and the two visit_map loops *)

NoValue == [variant |-> "None", one |-> <<>>, many |-> <<>>]

\* serde.rs: #[serde(untagged)] enum OneOrMany { One(String), Many(Vec<String>) }
OneOrMany_deserialize(enc) ==
    IF enc.shape = "scalar"
    THEN [ok |-> TRUE, value |-> [variant |-> "One", one |-> enc.s, many |-> <<>>], err |-> NoError]
    ELSE IF enc.shape = "list"
    THEN [ok |-> TRUE, value |-> [variant |-> "Many", one |-> <<>>, many |-> enc.items], err |-> NoError]
    ELSE [ok |-> FALSE, value |-> NoValue, err |-> UntaggedError]

\* serde/aws_api_gateway_v2.rs: the same enum, declared again
gw_OneOrMany_deserialize(enc) ==
    IF enc.shape = "scalar"
    THEN [ok |-> TRUE, value |-> [variant |-> "One", one |-> enc.s, many |-> <<>>], err |-> NoError]
    ELSE IF enc.shape = "list"
    THEN [ok |-> TRUE, value |-> [variant |-> "Many", one |-> <<>>, many |-> enc.items], err |-> NoError]
    ELSE [ok |-> FALSE, value |-> NoValue, err |-> UntaggedError]

\* a plausible variant: a scalar is kept whole
match_value_unsplit(value) ==
    IF value.variant = "One" THEN <<value.one>> ELSE value.many

\* serde.rs: match value { One(one) => one.split(',')..collect(), Many(many) => many }
match_value(value) ==
    IF value.variant = "One" THEN split(value.one) ELSE value.many

\* serde/aws_api_gateway_v2.rs: the same match
gw_match_value(value) ==
    IF value.variant = "One" THEN split(value.one) ELSE value.many

\* a plausible variant: .map_err(|e| ..) adding the entry's key before `?`
propagate_with_key(e, key) == [e EXCEPT !.key = key, !.cause = e.msg]

\* `?` on the Result of next_entry: the error is returned as it is
propagate(e, key) == e

\* a plausible variant: an entry that does not decode is skipped (best effort)
visit_map_body_skip(visitor, inn, entry) ==
    LET d == IF visitor = "generic" THEN OneOrMany_deserialize(entry.value)
             ELSE gw_OneOrMany_deserialize(entry.value)
    IN  IF ~d.ok THEN [ok |-> TRUE, inner |-> inn, err |-> NoError]
        ELSE [ok |-> TRUE,
              inner |-> HashMap_insert(inn, entry.key,
                          IF visitor = "generic" THEN match_value(d.value)
                          ELSE gw_match_value(d.value)),
              err |-> NoError]

\* one turn of `while let Some((key, value)) = map.next_entry::<_, OneOrMany>()?`
visit_map_body(visitor, inn, entry) ==
    LET d == IF visitor = "generic" THEN OneOrMany_deserialize(entry.value)
             ELSE gw_OneOrMany_deserialize(entry.value)
    IN  IF ~d.ok THEN [ok |-> FALSE, inner |-> inn, err |-> propagate(d.err, entry.key)]
        ELSE [ok |-> TRUE,
              inner |-> HashMap_insert(inn, entry.key,
                          IF visitor = "generic" THEN match_value(d.value)
                          ELSE gw_match_value(d.value)),
              err |-> NoError]

\* the whole of visit_map on a sequence of entries, from entry i with inn built
RECURSIVE visit_map(_, _, _, _)
visit_map(visitor, entries, i, inn) ==
    IF i > Len(entries) THEN Ok(inn)
    ELSE LET r == visit_map_body(visitor, inn, entries[i])
         IN  IF r.ok THEN visit_map(visitor, entries, i + 1, r.inner) ELSE Err(r.err)

\* a plausible slip: visit_none not overridden, so the Visitor default rejects null
visit_none_default_impl == Err(InvalidType)

visit_none == Ok(QueryMap_default)

visit_unit == Ok(QueryMap_default)

\* aws_api_gateway_v2::deserialize on a map-shaped source
deserialize(entries) == visit_map("gateway", entries, 1, EmptyStore)

\* the visitor a call runs: QueryMap::deserialize and Option<QueryMap> use the
\* Deserialize impl of serde.rs, the aws_api_gateway_v2 functions their own
Visitor(c) == IF c \in {"generic", "optional"} THEN "generic" ELSE "gateway"

-----------------------------------------------------------------------------
(* Encoding *)

\* a plausible variant: every value list written as one joined scalar
QueryMap_serialize_joined(m) == [k \in DOMAIN m |-> ScalarEnc(join(m[k]))]

\* derive(Serialize): the newtype is written as its HashMap, each Vec as a list
QueryMap_serialize(m) == [k \in DOMAIN m |-> ListEnc(m[k])]

\* .map(|(k, _)| (String::from(k), value.all(k).unwrap().join(","))).collect()
RECURSIVE CollectJoined(_, _, _)
CollectJoined(pairs, value, acc) ==
    IF pairs = <<>> THEN acc
    ELSE CollectJoined(Tail(pairs), value,
                       HashMap_insert(acc, Head(pairs).key, join(all(value, Head(pairs).key).val)))

serialize_query_string_parameters(value, order) ==
    LET run == IterCollect(value, iter(order), NoCurrent, 0, <<>>)
        query_string_parameters == CollectJoined(run.pairs, value, EmptyStore)
    IN  [panic |-> run.panic,
         entries |-> [k \in DOMAIN query_string_parameters |->
                         ScalarEnc(query_string_parameters[k])]]

\* the entries of a written map, in any order a source may yield them
EntryOrders(f) ==
    {[i \in 1..Cardinality(DOMAIN f) |-> [key |-> p[i], value |-> f[p[i]]]] : p \in Perms(DOMAIN f)}

-----------------------------------------------------------------------------
(* State machine *)

Calls == {"from", "default", "generic", "gateway", "empty", "optional"}

NoInput == [shape |-> "dropped", entries |-> <<>>, raw |-> EmptyStore]
MapInput(es) == [shape |-> "map", entries |-> es, raw |-> EmptyStore]
ShapeInput(sh) == [shape |-> sh, entries |-> <<>>, raw |-> EmptyStore]

\* a field may be missing (serde(default)), null (none/unit) or a map
InputsFor(c) ==
    IF c = "from" THEN {[shape |-> "raw", entries |-> <<>>, raw |-> r] : r \in RawStores}
    ELSE IF c = "default" THEN {ShapeInput("noarg")}
    ELSE IF c \in {"generic", "gateway"} THEN {MapInput(es) : es \in EntrySeqs}
    ELSE {MapInput(es) : es \in EntrySeqs}
         \cup {ShapeInput("missing"), ShapeInput("none"), ShapeInput("unit")}

NoLook == [set |-> FALSE, key |-> "", first |-> None, all |-> None]
NoOut == [written |-> FALSE, entries |-> EmptyStore]
NoOrig == [set |-> FALSE, val |-> EmptyStore]

Init ==
    /\ pc = "start"
    /\ call \in Calls
    /\ input \in InputsFor(call)
    /\ inner = EmptyStore
    /\ pos = 0
    /\ result = Pending
    /\ map = EmptyStore
    /\ looked = NoLook
    /\ keys = iter(<<>>)
    /\ current = NoCurrent
    /\ next_idx = 0
    /\ emitted = <<>>
    /\ out = NoOut
    /\ orig = NoOrig

\* impl From<HashMap<String, Vec<V>>> for QueryMap<V>
From ==
    /\ pc = "start" /\ call = "from"
    /\ result' = Ok(QueryMap_from(input.raw))
    /\ pc' = "returned"
    /\ UNCHANGED <<call, input, inner, pos, map, looked, iterVars, out, orig>>

\* derive(Default)
Default ==
    /\ pc = "start" /\ call = "default"
    /\ result' = Ok(QueryMap_default)
    /\ pc' = "returned"
    /\ UNCHANGED <<call, input, inner, pos, map, looked, iterVars, out, orig>>

\* QueryMap::deserialize and aws_api_gateway_v2::deserialize: deserialize_map(QueryMapVisitor)
Deserialize ==
    /\ pc = "start" /\ call \in {"generic", "gateway"}
    /\ pc' = "visit_map"
    /\ inner' = EmptyStore
    /\ pos' = 0
    /\ UNCHANGED <<call, input, result, map, looked, iterVars, out, orig>>

\* a field with serde(default) that the source does not hold
FieldDefault ==
    /\ pc = "start" /\ call \in {"empty", "optional"} /\ input.shape = "missing"
    /\ result' = IF call = "optional" THEN OkNone ELSE Ok(QueryMap_default)
    /\ pc' = "returned"
    /\ UNCHANGED <<call, input, inner, pos, map, looked, iterVars, out, orig>>

\* deserialize_empty: deserialize_option(QueryMapVisitor) on null
DeserializeEmptyNull ==
    /\ pc = "start" /\ call = "empty" /\ input.shape \in {"none", "unit"}
    /\ result' = IF input.shape = "none" THEN visit_none ELSE visit_unit
    /\ pc' = "returned"
    /\ UNCHANGED <<call, input, inner, pos, map, looked, iterVars, out, orig>>

\* deserialize_empty on a present value: visit_some -> deserialize_map(self)
DeserializeEmptySome ==
    /\ pc = "start" /\ call = "empty" /\ input.shape = "map"
    /\ pc' = "visit_map"
    /\ inner' = EmptyStore
    /\ pos' = 0
    /\ UNCHANGED <<call, input, result, map, looked, iterVars, out, orig>>

\* deserialize_optional: Option::deserialize on null
DeserializeOptionalNull ==
    /\ pc = "start" /\ call = "optional" /\ input.shape \in {"none", "unit"}
    /\ result' = OkNone
    /\ pc' = "returned"
    /\ UNCHANGED <<call, input, inner, pos, map, looked, iterVars, out, orig>>

\* deserialize_optional on a present value: QueryMap::deserialize(..).map(Some)
DeserializeOptionalSome ==
    /\ pc = "start" /\ call = "optional" /\ input.shape = "map"
    /\ pc' = "visit_map"
    /\ inner' = EmptyStore
    /\ pos' = 0
    /\ UNCHANGED <<call, input, result, map, looked, iterVars, out, orig>>

\* visit_map: one turn of the while-let loop
VisitMapEntry ==
    /\ pc = "visit_map" /\ pos < Len(input.entries)
    /\ LET r == visit_map_body(Visitor(call), inner, input.entries[pos + 1])
       IN  IF r.ok
           THEN /\ inner' = r.inner
                /\ pos' = pos + 1
                /\ UNCHANGED <<pc, result>>
           ELSE /\ result' = Err(r.err)
                /\ pc' = "returned"
                /\ UNCHANGED <<inner, pos>>
    /\ UNCHANGED <<call, input, map, looked, iterVars, out, orig>>

\* visit_map: next_entry gave None; Ok(QueryMap(Arc::new(inner)))
VisitMapEnd ==
    /\ pc = "visit_map" /\ pos = Len(input.entries)
    /\ result' = IF call = "optional" THEN OkSome(inner) ELSE Ok(inner)
    /\ pc' = "returned"
    /\ UNCHANGED <<call, input, inner, pos, map, looked, iterVars, out, orig>>

\* the caller keeps the QueryMap; the source and the Result are dropped
Bind ==
    /\ pc = "returned" /\ HasStore(result)
    /\ map' = result.val
    /\ pc' = "ready"
    /\ input' = NoInput
    /\ result' = Pending
    /\ inner' = EmptyStore
    /\ pos' = 0
    /\ out' = NoOut
    /\ orig' = NoOrig
    /\ UNCHANGED <<call, looked, iterVars>>

\* derive(Serialize) applied to the QueryMap just built
Serialize ==
    /\ pc = "returned" /\ HasStore(result)
    /\ out' = [written |-> TRUE, entries |-> QueryMap_serialize(result.val)]
    /\ pc' = "serialized"
    /\ UNCHANGED <<call, input, inner, pos, result, map, looked, iterVars, orig>>

\* first(key) and all(key)
Lookup ==
    /\ pc = "ready"
    /\ \E k \in LookupKeys :
          looked' = [set |-> TRUE, key |-> k, first |-> first(map, k), all |-> all(map, k)]
    /\ UNCHANGED <<pc, call, input, inner, pos, result, map, iterVars, out, orig>>

\* iter(): self.0.keys() walks the keys in some order
Iter ==
    /\ pc = "ready"
    /\ \E order \in Perms(DOMAIN map) : keys' = iter(order)
    /\ current' = NoCurrent
    /\ next_idx' = 0
    /\ emitted' = <<>>
    /\ looked' = NoLook
    /\ pc' = "iterating"
    /\ UNCHANGED <<call, input, inner, pos, result, map, out, orig>>

\* QueryMapIter::next
IterNext ==
    /\ pc = "iterating"
    /\ LET r == QueryMapIter_next(map, keys, current, next_idx)
       IN  /\ keys' = r.keys
           /\ current' = r.current
           /\ next_idx' = r.next_idx
           /\ emitted' = IF r.kind = "some"
                         THEN Append(emitted, [key |-> r.key, value |-> r.value])
                         ELSE emitted
           /\ pc' = IF r.kind = "some" THEN "iterating"
                    ELSE IF r.kind = "none" THEN "iter_done"
                    ELSE "iter_panicked"
    /\ UNCHANGED <<call, input, inner, pos, result, map, looked, out, orig>>

\* serialize_query_string_parameters(&map, serializer)
SerializeQSP ==
    /\ pc = "ready"
    /\ \E order \in Perms(DOMAIN map) :
          LET r == serialize_query_string_parameters(map, order)
          IN  IF r.panic
              THEN /\ pc' = "ser_panicked"
                   /\ out' = NoOut
              ELSE /\ pc' = "qsp_serialized"
                   /\ out' = [written |-> TRUE, entries |-> r.entries]
    /\ orig' = [set |-> TRUE, val |-> map]
    /\ looked' = NoLook
    /\ UNCHANGED <<call, input, inner, pos, result, map, iterVars>>

\* aws_api_gateway_v2::deserialize applied to what the serializer wrote
Redecode ==
    /\ pc = "qsp_serialized"
    /\ \E es \in EntryOrders(out.entries) : input' = MapInput(es)
    /\ call' = "gateway"
    /\ pc' = "visit_map"
    /\ inner' = EmptyStore
    /\ pos' = 0
    /\ result' = Pending
    /\ UNCHANGED <<map, looked, iterVars, out, orig>>

Next ==
    \/ From
    \/ Default
    \/ Deserialize
    \/ FieldDefault
    \/ DeserializeEmptyNull
    \/ DeserializeEmptySome
    \/ DeserializeOptionalNull
    \/ DeserializeOptionalSome
    \/ VisitMapEntry
    \/ VisitMapEnd
    \/ Bind
    \/ Serialize
    \/ Lookup
    \/ Iter
    \/ IterNext
    \/ SerializeQSP
    \/ Redecode

Spec == Init /\ [][Next]_vars

-----------------------------------------------------------------------------
(* Vocabulary of the properties *)

KeySet(es) == {es[i].key : i \in DOMAIN es}

\* the entry a source yields last for key k
LastEntry(es, k) ==
    es[CHOOSE i \in DOMAIN es : es[i].key = k /\ \A j \in DOMAIN es : j > i => es[j].key # k]

DistinctKeys(es) == \A i, j \in DOMAIN es : es[i].key = es[j].key => i = j

AllLists(es) == \A i \in DOMAIN es : es[i].value.shape = "list"

Undecodable(enc) == enc.shape \notin {"scalar", "list"}

CommaFree(m) == \A k \in DOMAIN m : \A i \in DOMAIN m[k] : ~HasComma(m[k][i])

RECURSIVE TotalValues(_, _)
TotalValues(m, S) ==
    IF S = {} THEN 0
    ELSE LET k == CHOOSE x \in S : TRUE IN Len(m[k]) + TotalValues(m, S \ {k})

\* the pairs of m, key by key in the given key order, each key's values in list order
RECURSIVE Flatten(_, _)
Flatten(order, m) ==
    IF order = <<>> THEN <<>>
    ELSE [i \in 1..Len(m[Head(order)]) |-> [key |-> Head(order), value |-> m[Head(order)][i]]]
         \o Flatten(Tail(order), m)

IsPrefix(s, t) == Len(s) <= Len(t) /\ SubSeq(t, 1, Len(s)) = s

Decoding == input.shape = "map" /\ pc = "returned"

-----------------------------------------------------------------------------
(* C1: for every key looked up, all(k) is None iff first(k) is None, and when
   both are Some, first(k) is the element at index 0 of all(k). *)
C1_FirstAllAgree ==
    looked.set =>
        /\ (~looked.all.some) <=> (~looked.first.some)
        /\ (looked.all.some /\ looked.first.some) => looked.first.val = looked.all.val[1]

(* C2: in every store a constructor returns, and in every store in use, each
   present key maps to a non-empty value sequence. *)
C2_NonEmptyValues ==
    /\ \A k \in DOMAIN map : map[k] # <<>>
    /\ HasStore(result) => \A k \in DOMAIN result.val : result.val[k] # <<>>

(* C3: driving next() on a fresh iterator never panics, and when it returns
   None the number of pairs emitted is the sum of the value-list lengths. *)
C3_IterTerminatesWithCount ==
    /\ pc # "iter_panicked"
    /\ pc = "iter_done" => Len(emitted) = TotalValues(map, DOMAIN map)

(* C4, as claimed: in the generic adapter a scalar v is stored as the
   singleton [v], and a list-shaped value is stored as it is. *)
C4_ScalarKeptWhole ==
    (Decoding /\ Visitor(call) = "generic" /\ result.tag = "ok") =>
        \A k \in DOMAIN result.val :
            LET e == LastEntry(input.entries, k).value
            IN  /\ e.shape = "scalar" => result.val[k] = <<e.s>>
                /\ e.shape = "list" => result.val[k] = e.items

(* C4, amended: in the generic adapter a scalar v is stored as its pieces
   between commas (a non-empty list of comma-free strings whose comma-join is
   v), which is the singleton [v] exactly when v holds no comma; a list-shaped
   value is stored as it is. *)
C4_ScalarSplitOnComma ==
    (Decoding /\ Visitor(call) = "generic" /\ result.tag = "ok") =>
        \A k \in DOMAIN result.val :
            LET e == LastEntry(input.entries, k).value
                got == result.val[k]
            IN  /\ e.shape = "scalar" =>
                    /\ got # <<>>
                    /\ \A i \in DOMAIN got : ~HasComma(got[i])
                    /\ join(got) = e.s
                    /\ (got = <<e.s>>) <=> ~HasComma(e.s)
                /\ e.shape = "list" => got = e.items

C4_Witness ==
    /\ Decoding /\ call = "generic" /\ result.tag = "ok"
    /\ \E k \in DOMAIN result.val :
          /\ LastEntry(input.entries, k).value = ScalarEnc(BC)
          /\ result.val[k] = <<B, C>>

(* C5: for a store whose values hold no comma, serialize_query_string_parameters
   completes and writes, for each key, the one scalar that is the key's values
   joined with ',', and decoding that output with aws_api_gateway_v2::deserialize
   returns a store equal to the original. *)
C5_CommaJoinRoundTrip ==
    (orig.set /\ CommaFree(orig.val)) =>
        /\ pc # "ser_panicked"
        /\ pc = "qsp_serialized" =>
              out.entries = [k \in DOMAIN orig.val |-> ScalarEnc(join(orig.val[k]))]
        /\ pc = "returned" => result = Ok(orig.val)

(* C6: decoding a structured map whose values are all list-shaped and writing
   the QueryMap with the derived serializer reproduces the map: the same keys,
   and for each key the same values in the same order. *)
C6_ListRoundTrip ==
    (pc = "serialized" /\ input.shape = "map"
        /\ AllLists(input.entries) /\ DistinctKeys(input.entries)) =>
        /\ out.written
        /\ DOMAIN out.entries = KeySet(input.entries)
        /\ \A i \in DOMAIN input.entries :
              out.entries[input.entries[i].key] = input.entries[i].value

C6_Witness ==
    /\ pc = "serialized" /\ input.shape = "map"
    /\ AllLists(input.entries) /\ DistinctKeys(input.entries)
    /\ Len(input.entries) = 2
    /\ input.entries[1].value = ListEnc(<<C, B>>)
    /\ out.entries[input.entries[1].key] = ListEnc(<<C, B>>)

(* C7: decoding is all-or-nothing: nothing is returned while entries are being
   read; if any entry is undecodable, wherever it stands, the call returns an
   error and no QueryMap; otherwise it returns a store that holds every key of
   the source with the value of that key's (last) entry. *)
C7_AllOrNothing ==
    /\ pc = "visit_map" => result = Pending
    /\ Decoding =>
          IF \E i \in DOMAIN input.entries : Undecodable(input.entries[i].value)
          THEN result.tag = "err" /\ ~HasStore(result)
          ELSE /\ HasStore(result)
               /\ DOMAIN result.val = KeySet(input.entries)
               /\ \A k \in DOMAIN result.val :
                     LET e == LastEntry(input.entries, k).value
                     IN  /\ e.shape = "list" => result.val[k] = e.items
                         /\ e.shape = "scalar" => join(result.val[k]) = e.s

C7_Witness ==
    /\ Decoding /\ result.tag = "err"
    /\ inner # EmptyStore
    /\ pos = 1 /\ Len(input.entries) = 2

(* C8, as claimed: when a value fails to decode in the generic adapter, the
   error returned names the key of the offending entry together with the
   underlying element-decode error. *)
C8_ErrorNamesKey ==
    (Decoding /\ Visitor(call) = "generic" /\ result.tag = "err") =>
        /\ result.err.key = input.entries[pos + 1].key
        /\ result.err.cause # NoCause

(* C8, amended: when a value fails to decode in the generic adapter, the error
   returned is the entry-decode error of the offending entry, returned as it
   is: the adapter adds neither the key nor a cause to it. *)
C8_ErrorPropagatedUnchanged ==
    (Decoding /\ Visitor(call) = "generic" /\ result.tag = "err") =>
        /\ Undecodable(input.entries[pos + 1].value)
        /\ result.err = UntaggedError
        /\ result.err.key = NoKey
        /\ result.err.cause = NoCause

C8_Witness ==
    /\ Decoding /\ call = "generic" /\ result.tag = "err"
    /\ input.entries[pos + 1].value = NumberEnc

(* C9: deserialize_empty maps a null (none/unit) input to a default QueryMap,
   for which is_empty() is true, and a present map to what deserialize returns
   for that map; deserialize_optional maps a null or missing input to None and
   a present map to Some of the decoded QueryMap (or to the decode error). *)
C9_NullAndPresent ==
    pc = "returned" =>
        /\ (call = "empty" /\ input.shape \in {"none", "unit"}) =>
              /\ result = Ok(QueryMap_default)
              /\ is_empty(result.val)
        /\ (call = "empty" /\ input.shape = "map") => result = deserialize(input.entries)
        /\ (call = "optional" /\ input.shape \in {"none", "unit", "missing"}) =>
              result = OkNone
        /\ (call = "optional" /\ input.shape = "map") =>
              /\ result.opt # "none"
              /\ LET r == visit_map("generic", input.entries, 1, EmptyStore)
                 IN  IF r.tag = "ok" THEN result = OkSome(r.val) ELSE result = r

C9_Witness ==
    /\ pc = "returned" /\ call = "empty" /\ input.shape = "none"
    /\ result.tag = "ok" /\ is_empty(result.val)

C9_WitnessPresent ==
    /\ pc = "returned" /\ call = "optional" /\ input.shape = "map"
    /\ result.opt = "some" /\ ~is_empty(result.val)

(* C10: the pairs emitted are, at every moment, an initial part of the store's
   pairs taken key by key in the key iterator's order and, within a key, in the
   order of its list (so no two keys interleave and the i-th pair of a key
   carries the i-th element of all(k)); when next() returns None every key has
   been emitted exactly once, in full. *)
C10_NoInterleaving ==
    pc \in {"iterating", "iter_done", "iter_panicked"} =>
        /\ IsPrefix(emitted, Flatten(keys.order, map))
        /\ pc = "iter_done" => emitted = Flatten(keys.order, map)

C10_Witness ==
    /\ pc = "iter_done"
    /\ Len(keys.order) = 2
    /\ \E i \in DOMAIN emitted :
          /\ i + 2 <= Len(emitted)
          /\ emitted[i].key = emitted[i + 1].key
          /\ emitted[i].value # emitted[i + 1].value
          /\ emitted[i + 2].key # emitted[i].key

====
